---- MODULE Spec2Model ----
(***************************************************************************)
(* Order execution, verification and retry of the MT5 trading service.     *)
(*                                                                         *)
(* The model covers the connection manager (MT5BaseService), the order     *)
(* operations of the trading, order and position services, the tenacity    *)
(* retry wrapper of close_position / modify_position, the batch            *)
(* close_all_positions, the legacy MT5Service connection check, and the    *)
(* broker terminal they talk to.                                           *)
(***************************************************************************)
EXTENDS Integers, Sequences, FiniteSets, TLC

\* ------------------------------------------------------------------ bounds
MaxTicket == 1
MaxLevel == 1
\* tickets of the account that close_all_positions is run on
MaxBatch == 2
\* scheduled trades ever added, times of day, and polls of the schedule monitor
MaxTrades == 2
MaxClock == 1
MaxPolls == 3

\* --------------------------------------------------------- program constants
MAX_RETRIES == 3
RETRY_MULTIPLIER == 1
RETRY_MIN_WAIT == 4
RETRY_MAX_WAIT == 10

\* Optional[...] = None
NoLevel == -1

Tickets == 1 .. MaxTicket
Levels == 0 .. MaxLevel
OptLevels == {NoLevel} \cup Levels
Callers == {1}

TRADE_RETCODE_DONE == "DONE"
\* what order_send may answer: the done code or any other return code
SendResults ==
    { [retcode |-> "DONE", comment |-> "Request completed"],
      [retcode |-> "DONE_PARTIAL", comment |-> "Only part of the request was completed"],
      [retcode |-> "REQUOTE", comment |-> "Requote"],
      [retcode |-> "REJECT", comment |-> "Request rejected"] }

RetryOps == {"close_position", "modify_position"}
\* "trading_close_position" is MT5TradingService.close_position, the close of
\* the trading service, which has no verification and no retry
PlainOps == {"execute_trade", "place_pending_order", "cancel_pending_order",
             "create_hedge_position", "trading_close_position"}
Ops == RetryOps \cup PlainOps
\* operations that start by looking the position up
QueryOps == {"close_position", "modify_position", "create_hedge_position",
             "trading_close_position"}
\* operations that resolve a quote before submitting
QuoteOps == {"close_position", "create_hedge_position", "execute_trade",
             "place_pending_order", "trading_close_position"}
\* operations that verify after the acknowledgement
VerifyOps == {"close_position", "modify_position"}
\* the two closes of a single position
CloseOps == {"close_position", "trading_close_position"}

\* MT5Service.reconnect_attempts
reconnect_attempts == 3

VARIABLES
    initialized,    \* MT5BaseService._initialized
    terminalUp,     \* the terminal session answers probes
    positions,      \* broker: ticket -> position record
    call,           \* caller -> state of its current top-level call
    batch,          \* the close_all_positions call in flight
    instance,       \* MT5BaseService._instance: 0 for None, else the object
    legacy,         \* the attributes of the MT5Service object
    last,           \* the latest call made on a connection manager
    http,           \* the request an endpoint of the routers is serving
    scheduled_trades,   \* MT5AutomationService.scheduled_trades
    monitor         \* the task of MT5AutomationService._schedule_monitor

conn == <<initialized, terminalUp>>
broker == <<positions>>
batching == <<batch>>
managing == <<instance, legacy, last>>
application == <<http, scheduled_trades, monitor>>
vars == <<initialized, terminalUp, positions, call, batch, instance, legacy, last,
          http, scheduled_trades, monitor>>

\* -------------------------------------------------------------------- data
NoPosition == [open |-> FALSE, type |-> "BUY", sl |-> 0, tp |-> 0]

OpenPositions ==
    [open : {TRUE}, type : {"BUY", "SELL"}, sl : Levels, tp : Levels]

NoRequest == [action |-> "none", type |-> "none", price |-> "none",
              sl |-> NoLevel, tp |-> NoLevel]

NoResult == [status |-> "none", order_id |-> 0, text |-> "", detail |-> "",
             n |-> 0, symbol |-> FALSE]

\* TradeResponse(order_id, status, message, symbol); the message is kept as
\* its fixed text, its interpolated part and (for the retry handler) a count
TradeResponse(order_id, status, text, detail, n, symbol) ==
    [status |-> status, order_id |-> order_id, text |-> text,
     detail |-> detail, n |-> n, symbol |-> symbol]

\* no close_all_positions call: snap is the list of tickets of the snapshot,
\* i the index of the item in progress, results the list being collected
IdleBatch ==
    [pc |-> "idle", conn |-> "none", taken |-> FALSE, snap |-> << >>, i |-> 0,
     results |-> << >>, exc |-> ""]

\* MT5Service.__init__
NewService == [initialized |-> FALSE, login_info |-> FALSE]

\* a call on a connection manager, as its caller sees it: the object it
\* was made on, what it returned, the flag and the terminal before (was, up)
\* and after (now, upnow) it, the mt5.shutdown() calls it issued, and the
\* call before it
NoEvent ==
    [op |-> "none", obj |-> 0, result |-> "none", was |-> FALSE, up |-> FALSE,
     now |-> FALSE, upnow |-> FALSE, issued |-> 0,
     prev |-> [op |-> "none", issued |-> 0]]

IdleCall ==
    [op |-> "none", pc |-> "idle", ticket |-> 1, sl |-> NoLevel, tp |-> NoLevel,
     side |-> "BUY", hasVolume |-> FALSE,
     attempt |-> 0, snap |-> NoPosition, request |-> NoRequest,
     retcode |-> "none", comment |-> "", order |-> 0,
     result |-> NoResult, exc |-> "",
     conn |-> "none", submits |-> 0, accepted |-> 0, net |-> 0,
     settled |-> FALSE, verdict |-> "none", vquery |-> "none", vsnap |-> NoPosition,
     backoffs |-> 0, rejected |-> FALSE,
     tick |-> "none", lookup |-> "none", absent0 |-> FALSE, again |-> FALSE,
     closed |-> 0, waits |-> << >>]

NoDetail == [wrapped |-> FALSE, text |-> "", detail |-> ""]

\* no request is being served: endpoint is the handler, raised and results
\* what the service call gave it, status, detail and body the HTTP answer,
\* notes the notifications it sent
IdleHttp ==
    [pc |-> "idle", endpoint |-> "none", raised |-> FALSE, results |-> << >>,
     status |-> 0, detail |-> NoDetail, body |-> << >>, notes |-> << >>]

\* the monitor task in the sleep between two polls: now is current_time of
\* the poll, copy the list it iterates over, i its position in it; added
\* lists every trade ever scheduled (a trade is known by its place in it),
\* late the trades scheduled while a poll was under way, runs how often each
\* was handed to _execute_trade
IdleMonitor ==
    [pc |-> "sleep", now |-> 0, copy |-> << >>, i |-> 0, polls |-> 0,
     added |-> << >>, late |-> {}, runs |-> [k \in 1 .. MaxTrades |-> 0]]

\* ------------------------------------------------------------ initial state
\* MT5BaseService is constructed not initialized; no call is in flight; the
\* account holds any positions.
Init ==
    /\ initialized = FALSE
    /\ terminalUp = FALSE
    /\ positions \in [Tickets -> OpenPositions \cup {NoPosition}]
    /\ call = [c \in Callers |-> IdleCall]
    /\ batch = IdleBatch
    /\ instance = 1
    /\ legacy = NewService
    /\ last = NoEvent
    /\ http = IdleHttp
    /\ scheduled_trades = << >>
    /\ monitor = IdleMonitor

\* ------------------------------------------------------ connection manager
\* The connection state is read only by the connection check that opens an
\* attempt, so changes of it are taken between attempts: they commute with
\* the later steps of an attempt.
AtAttemptBoundary == \A c \in DOMAIN call : call[c].pc \in {"idle", "start", "backoff"}

\* the outcome of a call on a connection manager: the flag and the
\* terminal after it, the mt5.shutdown() calls it issued, what it returned
Outcome(flag, up, issued, result) ==
    [initialized |-> flag, terminalUp |-> up, issued |-> issued, result |-> result]

\* MT5BaseService.connect: initialize, then login; a failed login shuts the
\* terminal down and leaves the flag as it was.
connect(flag, up, init_ok, login_ok) ==
    IF ~init_ok THEN Outcome(flag, up, 0, "false")
    ELSE IF ~login_ok THEN Outcome(flag, FALSE, 1, "false")
    ELSE Outcome(TRUE, TRUE, 0, "true")

\* the lifespan of the application connects
Connect ==
    \E init_ok \in BOOLEAN, login_ok \in BOOLEAN :
        /\ AtAttemptBoundary
        /\ LET r == connect(initialized, terminalUp, init_ok, login_ok)
           IN  /\ initialized' = r.initialized
               /\ terminalUp' = r.terminalUp
        /\ UNCHANGED <<broker, call, batching, managing, application>>

\* the terminal shut down without a look at the flag
shutdown_unguarded(flag, up) == Outcome(FALSE, FALSE, 1, "none")

\* MT5BaseService.shutdown: if self._initialized: mt5.shutdown(); flag = False
shutdown(flag, up) ==
    IF flag THEN Outcome(FALSE, FALSE, 1, "none") ELSE Outcome(flag, up, 0, "none")

\* the lifespan of the application shuts down
Shutdown ==
    /\ AtAttemptBoundary
    /\ LET r == shutdown(initialized, terminalUp)
       IN  /\ initialized' = r.initialized
           /\ terminalUp' = r.terminalUp
    /\ UNCHANGED <<broker, call, batching, managing, application>>

\* the terminal disconnects silently: the cached flag stays set
TerminalDrop ==
    /\ AtAttemptBoundary
    /\ terminalUp
    /\ terminalUp' = FALSE
    /\ UNCHANGED <<initialized, broker, call, batching, managing, application>>

\* what mt5.terminal_info() can do at this moment
Probes == IF terminalUp THEN {"info", "raise"} ELSE {"none", "raise"}

\* MT5BaseService.ensure_connected: the flag, then a probe of the terminal
ensure_connected(probe) ==
    IF ~initialized THEN "false"
    ELSE IF probe = "raise" THEN "raise"
    ELSE IF probe # "none" THEN "true" ELSE "false"

\* ----------------------------------------------- calls on the managers, observed
\* The actions below are the same calls made one at a time by a client that
\* looks at what each returns and at the terminal before and after it.
Event(op, obj, was, up, r) ==
    [op |-> op, obj |-> obj, result |-> r.result, was |-> was, up |-> up,
     now |-> r.initialized, upnow |-> r.terminalUp, issued |-> r.issued,
     prev |-> [op |-> last.op, issued |-> last.issued]]

NoCallInFlight == (\A c \in DOMAIN call : call[c].pc = "idle") /\ batch.pc = "idle"

Apply(r) == initialized' = r.initialized /\ terminalUp' = r.terminalUp

\* a construction that always makes a new object
new_fresh(inst) == inst + 1

\* MT5BaseService.__new__: the object a construction returns, made only if
\* the class holds none
new(inst) == IF inst = 0 THEN 1 ELSE inst

\* MT5BaseService(): __new__, then __init__, which sets the reconnect
\* settings unless initialized and leaves the flag and the terminal alone
ManagerConstruct ==
    /\ NoCallInFlight
    /\ instance' = new(instance)
    /\ last' = Event("construct", new(instance), initialized, terminalUp,
                     Outcome(initialized, terminalUp, 0, "none"))
    /\ UNCHANGED <<conn, broker, call, batching, legacy, application>>

ManagerConnect ==
    \E init_ok \in BOOLEAN, login_ok \in BOOLEAN :
        LET r == connect(initialized, terminalUp, init_ok, login_ok)
        IN  /\ NoCallInFlight
            /\ instance # 0
            /\ Apply(r)
            /\ last' = Event("connect", instance, initialized, terminalUp, r)
            /\ UNCHANGED <<broker, call, batching, instance, legacy, application>>

ManagerShutdown ==
    LET r == shutdown(initialized, terminalUp)
    IN  /\ NoCallInFlight
        /\ instance # 0
        /\ Apply(r)
        /\ last' = Event("shutdown", instance, initialized, terminalUp, r)
        /\ UNCHANGED <<broker, call, batching, instance, legacy, application>>

ManagerEnsureConnected ==
    \E probe \in Probes :
        LET r == Outcome(initialized, terminalUp, 0, ensure_connected(probe))
        IN  /\ NoCallInFlight
            /\ instance # 0
            /\ last' = Event("ensure_connected", instance, initialized, terminalUp, r)
            /\ UNCHANGED <<conn, broker, call, batching, instance, legacy, application>>

\* what one pass of the loop of MT5Service._connect can meet
ConnectOutcomes == {"init_fail", "login_fail", "raise", "ok"}

RECURSIVE connect_loop(_, _, _, _)
\* MT5Service._connect: for attempt in range(self.reconnect_attempts); a
\* failed login does not shut the terminal down
connect_loop(flag, up, outcomes, attempt) ==
    IF attempt > Len(outcomes) THEN Outcome(flag, up, 0, "false")
    ELSE IF flag THEN Outcome(flag, up, 0, "true")
    ELSE CASE outcomes[attempt] = "ok" -> Outcome(TRUE, TRUE, 0, "true")
           [] outcomes[attempt] = "login_fail" ->
                connect_loop(flag, TRUE, outcomes, attempt + 1)
           [] OTHER -> connect_loop(flag, up, outcomes, attempt + 1)

\* MT5Service._connect
service_connect(flag, up, login_info, outcomes) ==
    IF ~login_info THEN Outcome(flag, up, 0, "false")
    ELSE connect_loop(flag, up, outcomes, 1)

\* MT5Service.ensure_connected: reconnects when the flag is not set, and
\* answers True from the flag alone when it is
service_ensure_connected(flag, up, login_info, outcomes) ==
    IF ~flag THEN service_connect(flag, up, login_info, outcomes)
    ELSE Outcome(flag, up, 0, "true")

\* MT5Service.connect
ServiceConnect ==
    \E outcomes \in [1 .. reconnect_attempts -> ConnectOutcomes] :
        LET r == service_connect(legacy.initialized, terminalUp, TRUE, outcomes)
        IN  /\ NoCallInFlight
            /\ terminalUp' = r.terminalUp
            /\ legacy' = [initialized |-> r.initialized, login_info |-> TRUE]
            /\ last' = Event("MT5Service.connect", 0, legacy.initialized, terminalUp, r)
            /\ UNCHANGED <<initialized, broker, call, batching, instance, application>>

ServiceEnsureConnected ==
    \E outcomes \in [1 .. reconnect_attempts -> ConnectOutcomes] :
        LET r == service_ensure_connected(legacy.initialized, terminalUp,
                                          legacy.login_info, outcomes)
        IN  /\ NoCallInFlight
            /\ terminalUp' = r.terminalUp
            /\ legacy' = [legacy EXCEPT !.initialized = r.initialized]
            /\ last' = Event("MT5Service.ensure_connected", 0, legacy.initialized,
                             terminalUp, r)
            /\ UNCHANGED <<initialized, broker, call, batching, instance, application>>

\* MT5Service.shutdown
ServiceShutdown ==
    LET r == shutdown(legacy.initialized, terminalUp)
    IN  /\ NoCallInFlight
        /\ terminalUp' = r.terminalUp
        /\ legacy' = [legacy EXCEPT !.initialized = r.initialized]
        /\ last' = Event("MT5Service.shutdown", 0, legacy.initialized, terminalUp, r)
        /\ UNCHANGED <<initialized, broker, call, batching, instance, application>>

\* before main.py constructs the manager: the class holds no instance
ManagerInit ==
    /\ initialized = FALSE
    /\ terminalUp = FALSE
    /\ positions = [t \in Tickets |-> NoPosition]
    /\ call = [c \in Callers |-> IdleCall]
    /\ batch = IdleBatch
    /\ instance = 0
    /\ legacy = NewService
    /\ last = NoEvent
    /\ http = IdleHttp
    /\ scheduled_trades = << >>
    /\ monitor = IdleMonitor

ManagerNext ==
    \/ TerminalDrop
    \/ ManagerConstruct
    \/ ManagerConnect
    \/ ManagerShutdown
    \/ ManagerEnsureConnected
    \/ ServiceConnect
    \/ ServiceEnsureConnected
    \/ ServiceShutdown

\* the connection managers alone, called in any order
ManagerSpec == ManagerInit /\ [][ManagerNext]_vars

\* ------------------------------------------------------------- retry wrapper
\* the stop condition tested one attempt too late
stop_after_attempt_late(attempt) == attempt >= MAX_RETRIES + 1

\* stop_after_attempt(MAX_RETRIES)
stop_after_attempt(attempt) == attempt >= MAX_RETRIES

\* handle_retry_error(retry_state, max_retries)
handle_retry_error(e, max_retries) ==
    TradeResponse(0, "error", "Failed after retries: ", e, max_retries, FALSE)

Finish(cs, result) == [cs EXCEPT !.pc = "done", !.result = result]

\* an exception leaves the operation body: tenacity retries the decorated
\* operations until the stop condition and then calls the error callback;
\* the undecorated ones let it propagate to their caller
Raised(cs, e) ==
    IF cs.op \in RetryOps
      THEN IF stop_after_attempt(cs.attempt)
             THEN Finish([cs EXCEPT !.exc = e], handle_retry_error(e, MAX_RETRIES))
             ELSE [cs EXCEPT !.pc = "backoff", !.exc = e]
      ELSE [cs EXCEPT !.pc = "raised", !.exc = e]

Max(a, b) == IF a >= b THEN a ELSE b

Min(a, b) == IF a <= b THEN a ELSE b

\* the exponential wait without its lower and upper limit
wait_exponential_unclamped(attempt) == RETRY_MULTIPLIER * 2 ^ (attempt - 1)

\* wait_exponential(multiplier=RETRY_MULTIPLIER, min=RETRY_MIN_WAIT,
\* max=RETRY_MAX_WAIT): the wait that follows the attempt of this number
wait_exponential(attempt) ==
    Max(Max(0, RETRY_MIN_WAIT),
        Min(RETRY_MULTIPLIER * 2 ^ (attempt - 1), RETRY_MAX_WAIT))

\* the body run again without the attempt being counted
Backoff_uncounted(c) ==
    /\ call[c].pc = "backoff"
    /\ call' = [call EXCEPT ![c] =
                  [@ EXCEPT !.pc = "start", !.conn = "none", !.net = 0,
                            !.retcode = "none", !.comment = "", !.settled = FALSE,
                            !.verdict = "none", !.vquery = "none", !.tick = "none",
                            !.lookup = "none"]]
    /\ UNCHANGED <<conn, broker, batching, managing, application>>

\* the wait between two attempts elapses and the body runs again
Backoff(c) ==
    /\ call[c].pc = "backoff"
    /\ call' = [call EXCEPT ![c] =
                  [@ EXCEPT !.pc = "start", !.attempt = @ + 1, !.backoffs = @ + 1,
                            !.waits = Append(@, wait_exponential(call[c].attempt)),
                            !.conn = "none", !.net = 0, !.retcode = "none",
                            !.comment = "", !.settled = FALSE, !.verdict = "none",
                            !.vquery = "none", !.tick = "none", !.lookup = "none"]]
    /\ UNCHANGED <<conn, broker, batching, managing, application>>

\* ---------------------------------------------------------------- operations
PositionServiceOps == {"close_position", "modify_position", "create_hedge_position"}

\* order_id of the error results: the position service echoes the ticket
ErrorId(cs) == IF cs.op \in PositionServiceOps THEN cs.ticket ELSE 0

NotConnectedText(op) ==
    IF op \in {"close_position", "execute_trade", "trading_close_position"}
      THEN "Failed to connect to MT5" ELSE "Not connected to MT5"

\* the step that follows a successful ensure_connected
FirstStep(op) ==
    IF op \in QueryOps THEN "query" ELSE IF op \in QuoteOps THEN "quote" ELSE "submit"

\* the connection check whose result is ignored
NotConnected_proceed(cs) == [cs EXCEPT !.pc = FirstStep(cs.op)]

\* return TradeResponse(..., status="error", message="... connect ...")
NotConnected(cs) ==
    Finish(cs, TradeResponse(ErrorId(cs), "error", NotConnectedText(cs.op), "", 0, FALSE))

\* except Exception as e: ... message=str(e)
Caught(cs, e) ==
    Finish([cs EXCEPT !.exc = e], TradeResponse(ErrorId(cs), "error", "", e, 0, FALSE))

\* the state of a call that enters the body of an operation; absent0 and
\* again record what the call starts from: the ticket has no open position,
\* and the call before it was a close of this ticket that returned success
NewCall(op, t, sl, tp, side, hv, closed) ==
    [IdleCall EXCEPT !.op = op, !.pc = "start", !.ticket = t,
                     !.sl = sl, !.tp = tp, !.side = side,
                     !.hasVolume = hv, !.attempt = 1,
                     !.absent0 = ~positions[t].open,
                     !.again = (op \in CloseOps /\ closed = t)]

\* a top-level call of one of the operations starts
StartCall(c) ==
    /\ call[c].pc = "idle"
    /\ \E op \in Ops, t \in DOMAIN positions, sl \in OptLevels, tp \in OptLevels,
          side \in {"BUY", "SELL"}, hv \in BOOLEAN :
          /\ op \in {"execute_trade", "place_pending_order"} => t = 1
          /\ op \notin {"execute_trade", "place_pending_order"} => hv = FALSE
          /\ ~hv => side = "BUY"
          /\ ~(hv \/ op = "modify_position") => sl = NoLevel /\ tp = NoLevel
          /\ call' = [call EXCEPT ![c] =
                        NewCall(op, t, sl, tp, side, hv, call[c].closed)]
    /\ UNCHANGED <<conn, broker, batching, managing, application>>

\* if not await self.base_service.ensure_connected(): return <error>
EnsureConnected(c) ==
    /\ call[c].pc = "start"
    /\ \E probe \in Probes :
         LET cs == [call[c] EXCEPT !.conn = ensure_connected(probe)]
         IN  call' = [call EXCEPT ![c] =
               CASE cs.conn = "raise" -> Raised(cs, "terminal_info failed")
                 [] cs.conn = "false" -> NotConnected(cs)
                 [] OTHER -> [cs EXCEPT !.pc = FirstStep(cs.op)]]
    /\ UNCHANGED <<conn, broker, batching, managing, application>>

\* Python truth value of an Optional level: None and 0 are both false
Truthy(level) == level # NoLevel /\ level # 0

Opposite(type) == IF type = "BUY" THEN "SELL" ELSE "BUY"

\* positions_get(ticket=...): the rows the broker holds for the ticket
positions_get(t) == IF positions[t].open THEN <<positions[t]>> ELSE << >>

\* the missing-position test left out: the body goes on with the request
NotFound_proceeds(cs) == [cs EXCEPT !.pc = IF cs.op \in QuoteOps THEN "quote" ELSE "submit"]

\* if not position: return TradeResponse(..., status="error",
\*                                       message=f"Position {ticket} not found")
NotFound(cs) ==
    Finish(cs, TradeResponse(ErrorId(cs), "error", "Position not found", "", 0, FALSE))

\* mt5.positions_get(ticket=ticket); if not position: return <not found>
QueryPosition(c) ==
    /\ call[c].pc = "query"
    /\ \E outcome \in {"rows", "raise"} :
         LET rows == positions_get(call[c].ticket)
             cs == [call[c] EXCEPT !.net = @ + 1,
                                   !.lookup = IF outcome = "raise" THEN "raise"
                                              ELSE IF rows = << >> THEN "absent"
                                              ELSE "found"]
         IN  call' = [call EXCEPT ![c] =
               IF outcome = "raise" THEN Caught(cs, "positions_get failed")
               ELSE IF rows = << >>
                 THEN NotFound(cs)
                 ELSE [cs EXCEPT !.snap = rows[1],
                                 !.pc = IF cs.op \in QuoteOps THEN "quote" ELSE "submit"]]
    /\ UNCHANGED <<conn, broker, batching, managing, application>>

\* the side of the quote each operation reads for its request
QuoteSide(cs) ==
    CASE cs.op \in CloseOps -> IF cs.snap.type = "BUY" THEN "bid" ELSE "ask"
      [] cs.op = "create_hedge_position" -> IF cs.snap.type = "BUY" THEN "ask" ELSE "bid"
      [] OTHER -> IF cs.side = "BUY" THEN "ask" ELSE "bid"

\* the request dictionary each operation hands to order_send
BuildRequest(cs) ==
    CASE cs.op \in CloseOps ->
           [action |-> "DEAL", type |-> Opposite(cs.snap.type), price |-> QuoteSide(cs),
            sl |-> NoLevel, tp |-> NoLevel]
      [] cs.op = "create_hedge_position" ->
           [action |-> "DEAL", type |-> Opposite(cs.snap.type), price |-> QuoteSide(cs),
            sl |-> NoLevel, tp |-> NoLevel]
      [] cs.op = "modify_position" ->
           [action |-> "SLTP", type |-> "none", price |-> "none",
            sl |-> IF Truthy(cs.sl) THEN cs.sl ELSE cs.snap.sl,
            tp |-> IF Truthy(cs.tp) THEN cs.tp ELSE cs.snap.tp]
      [] cs.op = "cancel_pending_order" ->
           [action |-> "REMOVE", type |-> "none", price |-> "none",
            sl |-> NoLevel, tp |-> NoLevel]
      [] OTHER ->
           [action |-> IF cs.op = "place_pending_order" THEN "PENDING" ELSE "DEAL",
            type |-> cs.side, price |-> QuoteSide(cs),
            sl |-> IF Truthy(cs.sl) THEN cs.sl ELSE NoLevel,
            tp |-> IF Truthy(cs.tp) THEN cs.tp ELSE NoLevel]

\* the request built although symbol_info_tick returned no tick
QuoteUnavailable_proceeds(cs) == [cs EXCEPT !.pc = "submit"]

\* tick is None: _prepare_trade_request raises ValueError, and the price
\* expression of the position service raises AttributeError on None.bid;
\* either is caught by the handler of the operation's try block
QuoteUnavailable(cs) ==
    Caught(cs, IF cs.op \in {"execute_trade", "place_pending_order"}
                 THEN "Cannot get symbol info"
                 ELSE "NoneType has no attribute")

\* mt5.symbol_info_tick(symbol) and the construction of the request: a
\* missing tick, or a request object without a volume, ends in the handler
\* of the operation's try block
Quote(c) ==
    /\ call[c].pc = "quote"
    /\ \E tick \in {"tick", "absent"} :
         LET cs == [call[c] EXCEPT !.net = @ + 1, !.tick = tick]
         IN  call' = [call EXCEPT ![c] =
               IF tick = "absent"
                 THEN QuoteUnavailable(cs)
               ELSE IF cs.op \in {"execute_trade", "place_pending_order"} /\ ~cs.hasVolume
                 THEN Caught(cs, "TradeRequest has no attribute volume")
                 ELSE [cs EXCEPT !.pc = "submit"]]
    /\ UNCHANGED <<conn, broker, batching, managing, application>>

\* a partial fill taken for the done code
IsDone_partial(retcode) == retcode \in {"DONE", "DONE_PARTIAL"}

\* if result.retcode != mt5.TRADE_RETCODE_DONE: return <error>
IsDone(retcode) == retcode = TRADE_RETCODE_DONE

FailText(op) ==
    CASE op \in CloseOps -> "Failed to close position: "
      [] op = "modify_position" -> "Failed to modify position: "
      [] op = "create_hedge_position" -> "Failed to create hedge position: "
      [] op = "execute_trade" -> "Order failed: "
      [] op = "place_pending_order" -> "Failed to place pending order: "
      [] OTHER -> "Failed to cancel order: "

SuccessText(op) ==
    CASE op = "close_position" -> "Position closed and verified successfully"
      [] op = "trading_close_position" -> "Position closed successfully"
      [] op = "modify_position" -> "Position modified and verified successfully"
      [] op = "create_hedge_position" -> "Hedge position created successfully"
      [] op = "execute_trade" -> "Order placed successfully"
      [] op = "place_pending_order" -> "Pending order placed successfully"
      [] OTHER -> "Order cancelled successfully"

\* a rejection raised to the retry wrapper instead of returned
Rejected_retry(cs) == Raised(cs, cs.comment)

\* the result returned when the broker answers with another code
Rejected(cs) ==
    Finish(cs,
           TradeResponse(ErrorId(cs), "error", FailText(cs.op), cs.comment, 0,
                         cs.op \in VerifyOps))

\* the result of the success return of each operation
Success(cs) ==
    Finish(cs, TradeResponse(IF cs.op \in {"modify_position", "cancel_pending_order"}
                               THEN cs.ticket ELSE cs.order,
                             "success", SuccessText(cs.op), "", 0,
                             cs.op \in PositionServiceOps))

\* tickets the broker can give to a new position
FreeTickets == {t \in DOMAIN positions : ~positions[t].open}

\* the broker can carry the request out
Acceptable(cs) ==
    CASE cs.op \in CloseOps \cup {"modify_position"} -> positions[cs.ticket].open
      [] cs.op \in {"execute_trade", "create_hedge_position"} -> FreeTickets # {}
      [] OTHER -> TRUE

\* result.order of an accepted request
OrderIds(cs) ==
    CASE cs.op \in CloseOps -> {Cardinality(DOMAIN positions) + cs.ticket}
      [] cs.op \in {"modify_position", "cancel_pending_order"} -> {0}
      [] cs.op = "place_pending_order" -> {Cardinality(DOMAIN positions) + 1}
      [] OTHER -> FreeTickets

Opened(req) ==
    [open |-> TRUE, type |-> req.type,
     sl |-> IF req.sl = NoLevel THEN 0 ELSE req.sl,
     tp |-> IF req.tp = NoLevel THEN 0 ELSE req.tp]

\* what an acknowledged request does to the positions of the account: its
\* effect is there at once, or not (yet); pending orders are not positions
BrokerApply(cs, req, o, eff) ==
    CASE eff = "never" -> UNCHANGED broker
      [] cs.op \in CloseOps ->
           positions' = [positions EXCEPT ![cs.ticket] = NoPosition]
      [] cs.op = "modify_position" ->
           positions' = [positions EXCEPT ![cs.ticket].sl = req.sl,
                                          ![cs.ticket].tp = req.tp]
      [] cs.op \in {"execute_trade", "create_hedge_position"} ->
           positions' = [positions EXCEPT ![o] = Opened(req)]
      [] OTHER -> UNCHANGED broker

\* the verification entered without the settle delay
AfterSend_unsettled(cs) ==
    IF ~IsDone(cs.retcode) THEN Rejected(cs)
    ELSE IF cs.op \in VerifyOps THEN [cs EXCEPT !.pc = "verify"]
    ELSE Success(cs)

\* the code after order_send returned a result
AfterSend(cs) ==
    IF ~IsDone(cs.retcode) THEN Rejected(cs)
    ELSE IF cs.op \in VerifyOps THEN [cs EXCEPT !.pc = "settle"]
    ELSE Success(cs)

\* result = mt5.order_send(request) and the test of its return code
Submit(c) ==
    /\ call[c].pc = "submit"
    /\ LET req == BuildRequest(call[c])
           cs0 == [call[c] EXCEPT !.net = @ + 1, !.submits = @ + 1, !.request = req]
       IN  \/ \* order_send raises, or answers None and result.retcode raises
              /\ call' = [call EXCEPT ![c] = Caught(cs0, "order_send failed")]
              /\ UNCHANGED broker
           \/ \* the broker answers with another code than done
              \E res \in SendResults :
                /\ res.retcode # "DONE"
                /\ call' = [call EXCEPT ![c] =
                              AfterSend([cs0 EXCEPT !.retcode = res.retcode,
                                                    !.comment = res.comment,
                                                    !.rejected = TRUE])]
                /\ UNCHANGED broker
           \/ \* the broker accepts the request
              \E res \in SendResults, o \in OrderIds(cs0),
                 eff \in {"now", "never"} :
                /\ res.retcode = "DONE"
                /\ Acceptable(cs0)
                /\ call' = [call EXCEPT ![c] =
                              AfterSend([cs0 EXCEPT !.retcode = res.retcode,
                                                    !.comment = res.comment,
                                                    !.order = o, !.accepted = @ + 1])]
                /\ BrokerApply(cs0, req, o, eff)
    /\ UNCHANGED <<conn, batching, managing, application>>

\* await asyncio.sleep(VERIFICATION_WAIT_TIME) of the verification helpers
Settle(c) ==
    /\ call[c].pc = "settle"
    /\ call' = [call EXCEPT ![c] = [@ EXCEPT !.pc = "verify", !.settled = TRUE]]
    /\ UNCHANGED <<conn, broker, batching, managing, application>>

\* the closure check with its test inverted
verify_position_closure_inverted(rows) == rows # << >>

\* _verify_position_closure after the sleep: the position must be gone
verify_position_closure(rows) == rows = << >>

\* _verify_position_modification after the sleep: the position must exist
\* and each level of the request that is true must equal the recorded one
verify_position_modification(rows, sl, tp) ==
    IF rows = << >> THEN FALSE
    ELSE IF Truthy(sl) /\ rows[1].sl # sl THEN FALSE
    ELSE IF Truthy(tp) /\ rows[1].tp # tp THEN FALSE
    ELSE TRUE

VerifyFailedText(op) ==
    IF op = "close_position" THEN "Position closure verification failed"
    ELSE "Position modification verification failed"

\* a failed verification raised to the retry wrapper instead of returned
VerifyFailed_raises(cs) == Raised(cs, VerifyFailedText(cs.op))

\* if not verified: return TradeResponse(..., status="error", ...)
VerifyFailed(cs) ==
    Finish(cs, TradeResponse(cs.ticket, "error", VerifyFailedText(cs.op), "", 0, TRUE))

\* the re-query of the verification helper and the return that follows it
Verify(c) ==
    /\ call[c].pc = "verify"
    /\ \E outcome \in {"rows", "raise"} :
         LET rows == positions_get(call[c].ticket)
             verified ==
               IF outcome = "raise" THEN FALSE
               ELSE IF call[c].op = "close_position" THEN verify_position_closure(rows)
               ELSE verify_position_modification(rows, call[c].sl, call[c].tp)
             cs == [call[c] EXCEPT !.net = @ + 1,
                                   !.verdict = IF verified THEN "pass" ELSE "fail",
                                   !.vsnap = IF outcome = "raise" \/ rows = << >>
                                               THEN NoPosition ELSE rows[1],
                                   !.vquery = IF outcome = "raise" THEN "raise"
                                              ELSE IF rows = << >> THEN "absent"
                                              ELSE "found"]
         IN  call' = [call EXCEPT ![c] = IF ~verified THEN VerifyFailed(cs) ELSE Success(cs)]
    /\ UNCHANGED <<conn, broker, batching, managing, application>>

\* the ticket a finished call closed with success, 0 if it closed none
ClosedBy(cs) ==
    IF cs.op \in CloseOps /\ cs.result.status = "success" THEN cs.ticket ELSE 0

\* the result, or the exception, reaches the caller
Return(c) ==
    /\ call[c].pc \in {"done", "raised"}
    /\ call' = [call EXCEPT ![c] = [IdleCall EXCEPT !.closed = ClosedBy(call[c])]]
    /\ UNCHANGED <<conn, broker, batching, managing, application>>

\* --------------------------------------------------------------------- broker
\* a position leaves the account: a close acknowledged earlier takes effect,
\* a protective level is hit, or it is closed from the terminal
PositionCloses ==
    \E t \in DOMAIN positions :
        /\ positions[t].open
        /\ positions' = [positions EXCEPT ![t] = NoPosition]
        /\ UNCHANGED <<conn, call, batching, managing, application>>

\* ------------------------------------------------------ close_all_positions
RECURSIVE OpenTickets(_)
\* the tickets of the open positions among 1 .. n, in the order
\* mt5.positions_get() lists them
OpenTickets(n) ==
    IF n = 0 THEN << >>
    ELSE IF positions[n].open THEN Append(OpenTickets(n - 1), n)
    ELSE OpenTickets(n - 1)

\* MT5PositionService.get_positions: [] when not connected, when
\* positions_get answers None and when anything raises inside its try block;
\* an exception of its own connection check leaves it
get_positions(probe, outcome) ==
    CASE ensure_connected(probe) = "raise" -> [raised |-> TRUE, rows |-> << >>]
      [] ensure_connected(probe) = "false" -> [raised |-> FALSE, rows |-> << >>]
      [] outcome \in {"none", "raise"} -> [raised |-> FALSE, rows |-> << >>]
      [] OTHER -> [raised |-> FALSE, rows |-> OpenTickets(Cardinality(DOMAIN positions))]

\* a call of close_all_positions starts
BatchStart ==
    /\ NoCallInFlight
    /\ batch' = [IdleBatch EXCEPT !.pc = "start"]
    /\ UNCHANGED <<conn, broker, call, managing, application>>

\* if not await self.base_service.ensure_connected(): return []
BatchEnsureConnected ==
    /\ batch.pc = "start"
    /\ \E probe \in Probes :
         LET r == ensure_connected(probe)
         IN  batch' = [batch EXCEPT !.conn = r,
                                    !.exc = IF r = "raise" THEN "terminal_info failed" ELSE "",
                                    !.pc = CASE r = "raise" -> "raised"
                                             [] r = "false" -> "done"
                                             [] OTHER -> "positions"]
    /\ UNCHANGED <<conn, broker, call, managing, application>>

\* positions = await self.get_positions(); results = []; an exception is
\* caught by the handler of close_all_positions, which returns []
BatchGetPositions ==
    /\ batch.pc = "positions"
    /\ \E probe \in Probes, outcome \in {"rows", "none", "raise"} :
         LET got == get_positions(probe, outcome)
         IN  batch' = IF got.raised
                        THEN [batch EXCEPT !.pc = "done", !.exc = "terminal_info failed"]
                        ELSE [batch EXCEPT !.taken = TRUE, !.snap = got.rows, !.i = 1,
                                           !.pc = IF got.rows = << >> THEN "done"
                                                  ELSE "loop"]
    /\ UNCHANGED <<conn, broker, call, managing, application>>

\* result = await self.close_position(position.ticket)
BatchItem(c) ==
    /\ batch.pc = "loop"
    /\ call[c].pc = "idle"
    /\ call' = [call EXCEPT ![c] =
                  NewCall("close_position", batch.snap[batch.i], NoLevel, NoLevel,
                          "BUY", FALSE, 0)]
    /\ batch' = [batch EXCEPT !.pc = "item"]
    /\ UNCHANGED <<conn, broker, managing, application>>

\* the loop left at the first item that fails
AfterItem_aborts(b, cs) ==
    [b EXCEPT !.results = Append(@, [ticket |-> cs.ticket, result |-> cs.result]),
              !.i = @ + 1,
              !.pc = IF b.i + 1 > Len(b.snap) \/ cs.result.status = "error"
                       THEN "done" ELSE "loop"]

\* results.append(result) and the next turn of the loop, or return results
AfterItem(b, cs) ==
    [b EXCEPT !.results = Append(@, [ticket |-> cs.ticket, result |-> cs.result]),
              !.i = @ + 1,
              !.pc = IF b.i + 1 > Len(b.snap) THEN "done" ELSE "loop"]

\* the close of the item returns to the loop
BatchCollect(c) ==
    /\ batch.pc = "item"
    /\ call[c].pc = "done"
    /\ batch' = AfterItem(batch, call[c])
    /\ call' = [call EXCEPT ![c] = IdleCall]
    /\ UNCHANGED <<conn, broker, managing, application>>

\* the list, or the exception, reaches the caller of close_all_positions
BatchReturn ==
    /\ batch.pc \in {"done", "raised"}
    /\ batch' = IdleBatch
    /\ UNCHANGED <<conn, broker, call, managing, application>>

\* an account of MaxBatch tickets; the levels of a position play no part in
\* its close
BatchInit ==
    /\ initialized = FALSE
    /\ terminalUp = FALSE
    /\ positions \in [1 .. MaxBatch ->
                        {NoPosition} \cup [open : {TRUE}, type : {"BUY", "SELL"},
                                           sl : {0}, tp : {0}]]
    /\ call = [c \in Callers |-> IdleCall]
    /\ batch = IdleBatch
    /\ instance = 1
    /\ legacy = NewService
    /\ last = NoEvent
    /\ http = IdleHttp
    /\ scheduled_trades = << >>
    /\ monitor = IdleMonitor

BatchNext ==
    \/ TerminalDrop
    \/ Connect
    \/ Shutdown
    \/ PositionCloses
    \/ BatchStart
    \/ BatchEnsureConnected
    \/ BatchGetPositions
    \/ BatchReturn
    \/ \E c \in Callers :
         \/ BatchItem(c)
         \/ EnsureConnected(c)
         \/ QueryPosition(c)
         \/ Quote(c)
         \/ Submit(c)
         \/ Settle(c)
         \/ Verify(c)
         \/ Backoff(c)
         \/ BatchCollect(c)

\* close_all_positions as the only caller of the service
BatchSpec == BatchInit /\ [][BatchNext]_vars

Next ==
    \/ TerminalDrop
    \/ Connect
    \/ Shutdown
    \/ PositionCloses
    \/ \E c \in Callers :
         \/ StartCall(c)
         \/ EnsureConnected(c)
         \/ QueryPosition(c)
         \/ Quote(c)
         \/ Submit(c)
         \/ Settle(c)
         \/ Verify(c)
         \/ Backoff(c)
         \/ Return(c)

Spec == Init /\ [][Next]_vars

\* the event loop runs every step of a call that can run: the code between
\* two awaits runs to the next one, and the sleeps of the settle delay and
\* of the backoff elapse
Fairness ==
    \A c \in Callers :
        /\ WF_vars(EnsureConnected(c))
        /\ WF_vars(QueryPosition(c))
        /\ WF_vars(Quote(c))
        /\ WF_vars(Submit(c))
        /\ WF_vars(Settle(c))
        /\ WF_vars(Verify(c))
        /\ WF_vars(Backoff(c))
        /\ WF_vars(Return(c))

\* a top-level call of one of the two operations under the retry wrapper
StartRetried(c) ==
    /\ call[c].pc = "idle"
    /\ \E op \in RetryOps, t \in DOMAIN positions, sl \in OptLevels, tp \in OptLevels :
          /\ op # "modify_position" => sl = NoLevel /\ tp = NoLevel
          /\ call' = [call EXCEPT ![c] =
                        NewCall(op, t, sl, tp, "BUY", FALSE, call[c].closed)]
    /\ UNCHANGED <<conn, broker, batching, managing, application>>

RetriedNext ==
    \/ TerminalDrop
    \/ Connect
    \/ Shutdown
    \/ PositionCloses
    \/ \E c \in Callers :
         \/ StartRetried(c)
         \/ EnsureConnected(c)
         \/ QueryPosition(c)
         \/ Quote(c)
         \/ Submit(c)
         \/ Settle(c)
         \/ Verify(c)
         \/ Backoff(c)
         \/ Return(c)

\* ------------------------------------------------- two callers on one ticket
\* two requests handled by the one event loop of the application
ConcCallers == {1, 2}

\* the coroutine of a call is not running: it has not started, it is in the
\* sleep of the settle delay or of the backoff, or it has ended
Suspended(cs) == cs.pc \in {"idle", "settle", "backoff", "done", "raised"}

\* the event loop runs one coroutine at a time, from one await that
\* suspends to the next: a call takes a step only while no other call is
\* between two suspensions
Turn(c) == \A d \in DOMAIN call \ {c} : Suspended(call[d])

\* a top-level call of close_position
StartClose(c) ==
    /\ call[c].pc = "idle"
    /\ \E t \in DOMAIN positions :
         call' = [call EXCEPT ![c] =
                    NewCall("close_position", t, NoLevel, NoLevel, "BUY", FALSE,
                            call[c].closed)]
    /\ UNCHANGED <<conn, broker, batching, managing, application>>

\* an account with one ticket and two callers of the position service
ConcInit ==
    /\ initialized = FALSE
    /\ terminalUp = FALSE
    /\ positions \in [{1} -> {NoPosition} \cup [open : {TRUE}, type : {"BUY", "SELL"},
                                                sl : {0}, tp : {0}]]
    /\ call = [c \in ConcCallers |-> IdleCall]
    /\ batch = IdleBatch
    /\ instance = 1
    /\ legacy = NewService
    /\ last = NoEvent
    /\ http = IdleHttp
    /\ scheduled_trades = << >>
    /\ monitor = IdleMonitor

ConcNext ==
    \/ TerminalDrop
    \/ Connect
    \/ Shutdown
    \/ PositionCloses
    \/ \E c \in ConcCallers :
         \/ Turn(c) /\ StartClose(c)
         \/ Turn(c) /\ EnsureConnected(c)
         \/ Turn(c) /\ QueryPosition(c)
         \/ Turn(c) /\ Quote(c)
         \/ Turn(c) /\ Submit(c)
         \/ Turn(c) /\ Settle(c)
         \/ Turn(c) /\ Verify(c)
         \/ Turn(c) /\ Backoff(c)
         \/ Turn(c) /\ Return(c)

\* concurrent calls of close_position interleaved at their suspensions
ConcSpec == ConcInit /\ [][ConcNext]_vars

\* an account with one ticket: a call works on the ticket it is given, and
\* the other positions of the account play no part in how it ends
FairInit ==
    /\ initialized = FALSE
    /\ terminalUp = FALSE
    /\ positions \in [{1} -> OpenPositions \cup {NoPosition}]
    /\ call = [c \in Callers |-> IdleCall]
    /\ batch = IdleBatch
    /\ instance = 1
    /\ legacy = NewService
    /\ last = NoEvent
    /\ http = IdleHttp
    /\ scheduled_trades = << >>
    /\ monitor = IdleMonitor

\* the calls of close_position and modify_position under a fair event loop
FairSpec == FairInit /\ [][RetriedNext]_vars /\ Fairness

\* ------------------------------------------------------------------ routers
\* what a delivery to Telegram can meet
NotifyOutcomes == {"unconfigured", "transport_error", "non200", "ok"}

\* send_telegram without the handler of its try block
send_telegram_raises(outcome) ==
    CASE outcome = "ok" -> "true"
      [] outcome = "transport_error" -> "raise"
      [] OTHER -> "false"

\* MT5NotificationService.send_telegram: False without a token, False from
\* the handler of its try block, else response.status == 200
send_telegram(outcome) == IF outcome = "ok" THEN "true" ELSE "false"

Endpoints == {"execute_trade", "close_position", "modify_position", "close_all_positions"}

Response(status, detail, body, notes) ==
    [status |-> status, detail |-> detail, body |-> body, notes |-> notes]

\* str(e) of an exception raised by the service or by a notification
StrOf(e) == [wrapped |-> FALSE, text |-> "", detail |-> e]

\* str(e) of the HTTPException(status_code=400, detail=result.message) that
\* the handler raised inside its own try block
StrOfHttp(result) == [wrapped |-> TRUE, text |-> result.text, detail |-> result.detail]

\* an exception that leaves the endpoint: the framework answers 500
Unhandled(e, notes) == Response(500, StrOf(e), << >>, notes)

\* routers/trading.py execute_trade: the HTTPException of an error result is
\* raised inside the try block and caught by except Exception
execute_endpoint(cs) ==
    IF cs.pc = "raised" THEN Response(500, StrOf(cs.exc), << >>, << >>)
    ELSE IF cs.result.status = "error"
      THEN Response(500, StrOfHttp(cs.result), << >>, << >>)
      ELSE Response(200, NoDetail, <<cs.result>>, << >>)

\* except Exception as e of close_position and modify_position: a
\* notification that reads result.symbol, then HTTPException(400, str(e))
position_except(e, bound, notes, n) ==
    IF ~bound THEN Unhandled("UnboundLocalError", notes)
    ELSE IF send_telegram(n) = "raise"
      THEN Unhandled("send_telegram failed", Append(notes, n))
      ELSE Response(400, e, << >>, Append(notes, n))

\* routers/position.py close_position and modify_position
position_endpoint(cs, n1, n2) ==
    IF cs.pc = "raised" THEN position_except(StrOf(cs.exc), FALSE, << >>, n2)
    ELSE IF send_telegram(n1) = "raise"
      THEN position_except(StrOf("send_telegram failed"), TRUE, <<n1>>, n2)
    ELSE IF cs.result.status = "error"
      THEN position_except(StrOfHttp(cs.result), TRUE, <<n1>>, n2)
      ELSE Response(200, NoDetail, <<cs.result>>, <<n1>>)

\* except Exception as e of close_all_positions
close_all_except(e, notes, n) ==
    IF send_telegram(n) = "raise"
      THEN Unhandled("send_telegram failed", Append(notes, n))
      ELSE Response(500, e, << >>, Append(notes, n))

\* the list close_all_positions of the service returned
ResultsOf(b) == [i \in 1 .. Len(b.results) |-> b.results[i].result]

\* routers/position.py close_all_positions
close_all_endpoint(b, n1, n2) ==
    IF b.pc = "raised" THEN close_all_except(StrOf(b.exc), << >>, n2)
    ELSE IF send_telegram(n1) = "raise"
      THEN close_all_except(StrOf("send_telegram failed"), <<n1>>, n2)
      ELSE Response(200, NoDetail, ResultsOf(b), <<n1>>)

\* a request reaches one of the endpoints, which calls its service
HttpRequest ==
    /\ http.pc \in {"idle", "responded"}
    /\ NoCallInFlight
    /\ \E e \in Endpoints, c \in Callers :
         /\ http' = [IdleHttp EXCEPT !.pc = "service", !.endpoint = e]
         /\ IF e = "close_all_positions"
              THEN /\ batch' = [IdleBatch EXCEPT !.pc = "start"]
                   /\ UNCHANGED call
              ELSE /\ \E t \in DOMAIN positions, sl \in OptLevels, tp \in OptLevels,
                         side \in {"BUY", "SELL"}, hv \in BOOLEAN :
                         /\ e = "execute_trade" => t = 1
                         /\ e # "execute_trade" => hv = FALSE
                         /\ ~hv => side = "BUY"
                         /\ ~(hv \/ e = "modify_position") => sl = NoLevel /\ tp = NoLevel
                         /\ call' = [call EXCEPT ![c] =
                                       NewCall(e, t, sl, tp, side, hv, call[c].closed)]
                   /\ UNCHANGED batch
    /\ UNCHANGED <<conn, broker, managing, scheduled_trades, monitor>>

\* the service call is over: the endpoint sends its notifications and answers
HttpRespond ==
    /\ http.pc = "service"
    /\ \E n1 \in NotifyOutcomes, n2 \in NotifyOutcomes, c \in Callers :
         IF http.endpoint = "close_all_positions"
           THEN LET r == close_all_endpoint(batch, n1, n2)
                IN  /\ batch.pc \in {"done", "raised"}
                    /\ http' = [http EXCEPT !.pc = "responded",
                                            !.raised = (batch.pc = "raised"),
                                            !.results = IF batch.pc = "raised" THEN << >>
                                                        ELSE ResultsOf(batch),
                                            !.status = r.status, !.detail = r.detail,
                                            !.body = r.body, !.notes = r.notes]
                    /\ batch' = IdleBatch
                    /\ UNCHANGED call
           ELSE LET r == IF http.endpoint = "execute_trade"
                           THEN execute_endpoint(call[c])
                           ELSE position_endpoint(call[c], n1, n2)
                IN  /\ call[c].pc \in {"done", "raised"}
                    /\ http' = [http EXCEPT !.pc = "responded",
                                            !.raised = (call[c].pc = "raised"),
                                            !.results = IF call[c].pc = "raised" THEN << >>
                                                        ELSE <<call[c].result>>,
                                            !.status = r.status, !.detail = r.detail,
                                            !.body = r.body, !.notes = r.notes]
                    /\ call' = [call EXCEPT ![c] =
                                  [IdleCall EXCEPT !.closed = ClosedBy(call[c])]]
                    /\ UNCHANGED batch
    /\ UNCHANGED <<conn, broker, managing, scheduled_trades, monitor>>

\* an account with one ticket behind the endpoints
HttpInit ==
    /\ initialized = FALSE
    /\ terminalUp = FALSE
    /\ positions \in [{1} -> OpenPositions \cup {NoPosition}]
    /\ call = [c \in Callers |-> IdleCall]
    /\ batch = IdleBatch
    /\ instance = 1
    /\ legacy = NewService
    /\ last = NoEvent
    /\ http = IdleHttp
    /\ scheduled_trades = << >>
    /\ monitor = IdleMonitor

HttpNext ==
    \/ TerminalDrop
    \/ Connect
    \/ Shutdown
    \/ PositionCloses
    \/ HttpRequest
    \/ HttpRespond
    \/ BatchEnsureConnected
    \/ BatchGetPositions
    \/ \E c \in Callers :
         \/ BatchItem(c)
         \/ EnsureConnected(c)
         \/ QueryPosition(c)
         \/ Quote(c)
         \/ Submit(c)
         \/ Settle(c)
         \/ Verify(c)
         \/ Backoff(c)
         \/ BatchCollect(c)

\* the endpoints of the trading and position routers, one request at a time
HttpSpec == HttpInit /\ [][HttpNext]_vars

\* --------------------------------------------------------- schedule monitor
\* ScheduleType; weekly and monthly are handled as daily is
ScheduleTypes == {"once", "daily"}

\* expiry_date: None, a date that has passed, or a date with a time zone,
\* which datetime.now() cannot be compared with
Expiries == {"none", "past", "aware"}

ScheduledTrades ==
    [id : 1 .. MaxTrades, schedule_type : ScheduleTypes,
     execution_time : 0 .. MaxClock, expiry_date : Expiries]

\* equality of two ScheduledTrade objects: that of their fields
SameTrade(a, b) ==
    /\ a.schedule_type = b.schedule_type
    /\ a.execution_time = b.execution_time
    /\ a.expiry_date = b.expiry_date

\* list.remove(trade): the list without its first element equal to trade
remove(list, trade) ==
    LET first == CHOOSE k \in 1 .. Len(list) :
                   /\ SameTrade(list[k], trade)
                   /\ \A j \in 1 .. k - 1 : ~SameTrade(list[j], trade)
    IN  SubSeq(list, 1, first - 1) \o SubSeq(list, first + 1, Len(list))

\* _should_execute_schedule
should_execute_schedule(trade, current_time) ==
    CASE trade.expiry_date = "aware" -> "raise"
      [] trade.expiry_date = "past" -> "false"
      [] OTHER -> IF trade.execution_time <= current_time THEN "true" ELSE "false"

\* what _execute_trade meets: an exception inside its try block (the base
\* service of main.py has no check_risk_limits), the risk limits exceeded,
\* the order placed, the order refused
ExecuteOutcomes == {"raise", "limits", "placed", "refused"}

\* _execute_trade: True for a placed order, False otherwise; it raises nothing
execute_trade(outcome) == outcome = "placed"

\* the trade taken off the schedule only when its execution succeeded
after_execute_on_success(list, trade, result) ==
    IF trade.schedule_type = "once" /\ result THEN remove(list, trade) ELSE list

\* if trade.schedule_type == "once": self.scheduled_trades.remove(trade)
after_execute(list, trade, result) ==
    IF trade.schedule_type = "once" THEN remove(list, trade) ELSE list

\* the trades in self.scheduled_trades, each by its place in added
ScheduledIds == {scheduled_trades[k].id : k \in 1 .. Len(scheduled_trades)}

\* add_scheduled_trade, called while the monitor is suspended
AddScheduledTrade ==
    /\ monitor.pc \in {"sleep", "await"}
    /\ Len(monitor.added) < MaxTrades
    /\ \E trade \in ScheduledTrades :
         /\ trade.id = Len(monitor.added) + 1
         /\ scheduled_trades' = Append(scheduled_trades, trade)
         /\ monitor' = [monitor EXCEPT !.added = Append(@, trade),
                                       !.late = IF monitor.pc = "await"
                                                  THEN @ \cup {trade.id} ELSE @]
    /\ UNCHANGED <<conn, broker, call, batching, managing, http>>

\* the sleep is over: current_time is read and the list copied
Poll ==
    /\ monitor.pc = "sleep"
    /\ monitor.polls < MaxPolls
    /\ \E current_time \in 0 .. MaxClock :
         monitor' = [monitor EXCEPT !.pc = "loop", !.now = current_time,
                                    !.copy = scheduled_trades, !.i = 1,
                                    !.polls = @ + 1]
    /\ UNCHANGED <<conn, broker, call, batching, managing, http, scheduled_trades>>

\* the poll is over: await asyncio.sleep(1), or asyncio.sleep(5) in the
\* handler of the monitor
Sleep(m) == [m EXCEPT !.pc = "sleep", !.now = 0, !.copy = << >>, !.i = 0]

\* one turn of the for loop up to its await, or the end of the loop; an
\* exception ends the poll in the handler of the monitor
Turns ==
    /\ monitor.pc = "loop"
    /\ monitor' =
         IF monitor.i > Len(monitor.copy) THEN Sleep(monitor)
         ELSE LET due == should_execute_schedule(monitor.copy[monitor.i], monitor.now)
              IN  CASE due = "raise" -> Sleep(monitor)
                    [] due = "false" -> [monitor EXCEPT !.i = @ + 1]
                    [] OTHER ->
                         [monitor EXCEPT !.pc = "await",
                                         !.runs[monitor.copy[monitor.i].id] = @ + 1]
    /\ UNCHANGED <<conn, broker, call, batching, managing, http, scheduled_trades>>

\* _execute_trade returns and the turn of the loop goes on after the await
Executed ==
    /\ monitor.pc = "await"
    /\ \E outcome \in ExecuteOutcomes :
         /\ scheduled_trades' = after_execute(scheduled_trades, monitor.copy[monitor.i],
                                              execute_trade(outcome))
         /\ monitor' = [monitor EXCEPT !.pc = "loop", !.i = @ + 1]
    /\ UNCHANGED <<conn, broker, call, batching, managing, http>>

\* MT5AutomationService.__init__, and start_automation has made the task
ScheduleInit ==
    /\ initialized = FALSE
    /\ terminalUp = FALSE
    /\ positions = [t \in {1} |-> NoPosition]
    /\ call = [c \in Callers |-> IdleCall]
    /\ batch = IdleBatch
    /\ instance = 1
    /\ legacy = NewService
    /\ last = NoEvent
    /\ http = IdleHttp
    /\ scheduled_trades = << >>
    /\ monitor = IdleMonitor

ScheduleNext ==
    \/ AddScheduledTrade
    \/ Poll
    \/ Turns
    \/ Executed

\* the schedule monitor and the endpoint that schedules trades
ScheduleSpec == ScheduleInit /\ [][ScheduleNext]_vars

TypeOK ==
    /\ initialized \in BOOLEAN
    /\ terminalUp \in BOOLEAN
    /\ \A c \in Callers : call[c].attempt \in 0 .. MAX_RETRIES

\* ---------------------------------------------------------------- properties

\* C1: in close_position and modify_position, a verification that fails
\* before the last attempt does not end the call: the call backs off for
\* another attempt.
C1_VerifyFailureBacksOff ==
    \A c \in Callers :
        (call[c].op \in RetryOps /\ call[c].verdict = "fail"
            /\ call[c].attempt < MAX_RETRIES)
        => call[c].pc = "backoff"

\* C2: a top-level close_position or modify_position call never runs its body
\* (and so never submits) more than MAX_RETRIES times.
C2_AttemptsBounded ==
    \A c \in Callers :
        call[c].op \in RetryOps
        => /\ call[c].attempt <= MAX_RETRIES
           /\ call[c].submits <= MAX_RETRIES
           /\ call[c].backoffs < MAX_RETRIES

C2_Witness ==
    \E c \in Callers :
        /\ call[c].op = "close_position"
        /\ call[c].attempt = MAX_RETRIES
        /\ call[c].pc = "settle"

\* C3: within one close_position call the broker accepts at most one close
\* of the ticket, and once a close was accepted no attempt submits again.
C3_NoDoubleExecution ==
    \A c \in Callers :
        call[c].op = "close_position"
        => /\ call[c].accepted <= 1
           /\ call[c].accepted = 1
                => /\ call[c].submits = 1
                   /\ call[c].pc \in {"settle", "verify", "done"}

C3_Witness ==
    \E c \in Callers :
        /\ call[c].op = "close_position"
        /\ call[c].attempt > 1
        /\ call[c].accepted = 1
        /\ call[c].verdict = "fail"
        /\ positions[call[c].ticket].open

C5_ModifyStrict ==
    \A c \in Callers :
        (call[c].op = "modify_position" /\ call[c].result.status = "success")
        => /\ call[c].vquery = "found"
           /\ call[c].sl # NoLevel => call[c].vsnap.sl = call[c].sl
           /\ call[c].tp # NoLevel => call[c].vsnap.tp = call[c].tp

C7_VerifyFailureExhausts ==
    \A c \in Callers :
        (call[c].op \in RetryOps /\ call[c].pc = "done" /\ call[c].verdict = "fail")
        => /\ call[c].attempt = MAX_RETRIES
           /\ call[c].result.status = "error"
           /\ call[c].result.n = MAX_RETRIES

\* C8: for each of the six operations, success is returned only on the done
\* code; on any other return code the result is an error carrying the
\* broker's comment and the attempt does not sleep or re-query.
C8_OnlyDoneSucceeds ==
    \A c \in Callers :
        /\ call[c].result.status = "success" => call[c].retcode = "DONE"
        /\ call[c].retcode \notin {"none", "DONE"}
             => /\ call[c].result.status = "error"
                /\ call[c].result.detail = call[c].comment
                /\ call[c].comment # ""
                /\ ~call[c].settled
                /\ call[c].verdict = "none"
                /\ call[c].vquery = "none"

C8_Witness ==
    \E c \in Callers :
        /\ call[c].op = "create_hedge_position"
        /\ call[c].retcode = "DONE_PARTIAL"
        /\ call[c].result.status = "error"

\* C9: a submission the broker rejects ends a close_position or
\* modify_position call: the call is finished with an error, without backoff
\* and with that one submission only.
C9_RejectionIsTerminal ==
    \A c \in Callers :
        (call[c].op \in RetryOps /\ call[c].rejected)
        => /\ call[c].pc = "done"
           /\ call[c].result.status = "error"
           /\ call[c].submits = 1

C9_Witness ==
    \E c \in Callers :
        /\ call[c].op = "modify_position"
        /\ call[c].rejected
        /\ call[c].attempt = 2

\* C10: in every attempt of the six operations nothing is asked of the
\* terminal before ensure_connected has answered true; when it answers false
\* the call ends there with an error, having made no quote query, position
\* query or submission in that attempt, and is not retried.
C10_ConnectionFirst ==
    \A c \in Callers :
        /\ call[c].net > 0 => call[c].conn = "true"
        /\ call[c].pc \in {"query", "quote", "submit", "settle", "verify"}
             => call[c].conn = "true"
        /\ call[c].conn = "false"
             => /\ call[c].pc = "done"
                /\ call[c].result.status = "error"
                /\ call[c].result.text = NotConnectedText(call[c].op)
                /\ call[c].net = 0
                /\ call[c].submits = 0

C10_Witness ==
    \E c \in Callers :
        /\ call[c].op = "cancel_pending_order"
        /\ initialized
        /\ call[c].conn = "false"
        /\ call[c].pc = "done"

\* C11: execute_trade, close_position, modify_position and
\* close_all_positions end every call with a result: no exception leaves
\* them, also when the probe of the connection check, a query or a
\* submission raises.
C11_NothingPropagates ==
    /\ \A c \in Callers :
          call[c].op \in {"execute_trade", "close_position", "modify_position"}
          => call[c].pc # "raised"
    /\ batch.pc # "raised"

\* C15: in the open, pending, close and hedge operations an attempt that
\* gets no tick for the symbol ends the call with an error result, without a
\* submission and without another attempt.
C15_NoSubmitWithoutQuote ==
    \A c \in Callers :
        call[c].tick = "absent"
        => /\ call[c].op \in QuoteOps
           /\ call[c].pc = "done"
           /\ call[c].result.status = "error"
           /\ call[c].submits = 0
           /\ call[c].request = NoRequest

C15_Witness ==
    \E c \in Callers :
        /\ call[c].op = "close_position"
        /\ call[c].attempt = 2
        /\ call[c].tick = "absent"
        /\ call[c].snap.open

\* C16: every deal request that is submitted carries the ask when it is a BUY
\* and the bid when it is a SELL; the close or hedge of a BUY position is a
\* SELL, of a SELL position a BUY.
C16_PriceSideOfOrder ==
    \A c \in Callers :
        (call[c].request.action = "DEAL")
        => /\ call[c].request.price =
                 IF call[c].request.type = "BUY" THEN "ask" ELSE "bid"
           /\ call[c].op \in CloseOps \cup {"create_hedge_position"}
                => call[c].request.type = Opposite(call[c].snap.type)

C19_RecloseIsSuccess ==
    \A c \in Callers :
        (call[c].op = "close_position" /\ call[c].lookup = "absent")
        => /\ call[c].pc = "done"
           /\ call[c].result.status = "success"

\* C12: a call of ensure_connected returns true only when the flag of its
\* service is set and the terminal answers at that moment; with the flag set
\* and the terminal gone it does not return true.
C12_EnsureConnectedProbes ==
    (last.op \in {"ensure_connected", "MT5Service.ensure_connected"}
        /\ last.result = "true")
    => last.now /\ last.upnow

\* C13: every construction of MT5BaseService returns the one object of the
\* class and leaves the flag and the terminal session as they were, also
\* after a successful connect.
C13_OneManager ==
    /\ instance \in {0, 1}
    /\ last.op # "none" /\ last.op \notin {"MT5Service.connect",
                                             "MT5Service.ensure_connected",
                                             "MT5Service.shutdown"}
         => last.obj = 1
    /\ last.op = "construct"
         => /\ instance = 1
            /\ last.now = last.was
            /\ last.upnow = last.up
            /\ last.issued = 0

C13_Witness ==
    /\ last.op = "construct"
    /\ last.prev.op = "connect"
    /\ last.was
    /\ last.up
    /\ initialized
    /\ terminalUp

\* C14: shutdown leaves the service not initialized; it issues the terminal
\* shutdown once if the flag was set and not at all otherwise, in which case
\* it changes nothing; a shutdown right after a shutdown issues none.
C14_ShutdownIdempotent ==
    last.op = "shutdown"
    => /\ ~last.now
       /\ ~initialized
       /\ last.issued = IF last.was THEN 1 ELSE 0
       /\ ~last.was => last.upnow = last.up
       /\ last.prev.op = "shutdown"
            => /\ ~last.was
               /\ last.issued = 0
               /\ last.prev.issued + last.issued <= 1

C14_Witness ==
    /\ last.op = "shutdown"
    /\ last.prev.op = "shutdown"
    /\ last.prev.issued = 1
    /\ last.issued = 0

\* C17: close_all_positions closes the positions of its snapshot one after
\* the other in the order of the snapshot, each ticket once; every item, also
\* one that fails, adds its result to the list and the loop goes on, so the
\* list returned has one result per position of the snapshot, in that order,
\* and no exception leaves the call once the snapshot is taken.
C17_OneResultPerPosition ==
    /\ \A j, k \in 1 .. Len(batch.snap) : j < k => batch.snap[j] < batch.snap[k]
    /\ Len(batch.results) <= Len(batch.snap)
    /\ \A k \in 1 .. Len(batch.results) :
          /\ batch.results[k].ticket = batch.snap[k]
          /\ batch.results[k].result.status \in {"success", "error"}
    /\ batch.pc \in {"loop", "item"}
          => /\ batch.i \in 1 .. Len(batch.snap)
             /\ Len(batch.results) = batch.i - 1
    /\ batch.pc = "item"
          => \A c \in Callers :
                /\ call[c].op = "close_position"
                /\ call[c].ticket = batch.snap[batch.i]
                /\ call[c].pc # "raised"
    /\ batch.pc \notin {"loop", "item"}
          => \A c \in Callers : call[c].pc \in {"idle", "start"} \/ batch.pc = "idle"
    /\ (batch.pc = "done" /\ batch.taken) => Len(batch.results) = Len(batch.snap)
    /\ batch.taken => batch.pc # "raised"

C17_Witness ==
    /\ batch.pc = "done"
    /\ Len(batch.results) = 2
    /\ batch.results[1].result.status = "error"
    /\ batch.results[2].result.status = "success"

\* C20: every close_position or modify_position call that has started
\* reaches its end with a result, whatever the broker and the verification
\* answer, and it leaves its attempts in no other way than with that result.
C20_CallsTerminate ==
    /\ \A c \in Callers :
          (call[c].op \in RetryOps /\ call[c].pc = "start")
             ~> (call[c].op \in RetryOps /\ call[c].pc = "done"
                   /\ call[c].result.status \in {"success", "error"})
    /\ [][\A c \in Callers :
             (call[c].op \in RetryOps /\ call'[c].op # call[c].op)
                => call[c].pc = "done"]_vars

C20_Witness ==
    \E c \in Callers :
        /\ call[c].op = "modify_position"
        /\ call[c].pc = "done"
        /\ call[c].backoffs = MAX_RETRIES - 1
        /\ call[c].settled

\* C22: every failed result carries ticket id 0: whenever execute_trade,
\* close_position of the position service or create_hedge_position returns
\* status error, the order_id of the result is 0.
C22_FailedCarriesZero ==
    \A c \in DOMAIN call :
        (/\ call[c].pc = "done"
         /\ call[c].op \in {"execute_trade", "close_position", "create_hedge_position"}
         /\ call[c].result.status = "error")
        => call[c].result.order_id = 0

\* C24: an execute_trade sized by amount that is connected and has a quote
\* either submits an order with the converted volume or fails with an error
\* that names the violated volume bound.
C24_AmountSizedBounded ==
    \A c \in DOMAIN call :
        (/\ call[c].pc = "done"
         /\ call[c].op = "execute_trade"
         /\ ~call[c].hasVolume
         /\ call[c].tick = "tick")
        => \/ call[c].submits = 1
           \/ call[c].result.detail \in {"Volume too small", "Volume too large"}

\* C25: within one attempt of close_position or modify_position the
\* verification query is issued only after the submission was acknowledged
\* with the done code and after the settle delay has elapsed: the delay is
\* entered only on the done code and before any verification query, and a
\* verification query is reached or made only with the delay behind it.
C25_VerifyAfterAckAndSettle ==
    \A c \in DOMAIN call :
        call[c].op \in VerifyOps =>
          /\ call[c].pc = "settle" =>
               /\ call[c].retcode = TRADE_RETCODE_DONE
               /\ ~call[c].settled
               /\ call[c].vquery = "none"
          /\ (call[c].pc = "verify" \/ call[c].vquery # "none") =>
               /\ call[c].retcode = TRADE_RETCODE_DONE
               /\ call[c].accepted >= 1
               /\ call[c].settled

\* a close_position and a modify_position can each have made their
\* verification query
C25_Witness ==
    \E c \in DOMAIN call :
        /\ call[c].op \in VerifyOps
        /\ call[c].pc = "done"
        /\ call[c].vquery = "found"
        /\ call[c].settled

\* C26: the request submitted by modify_position sets each level the caller
\* specified to the requested value and keeps each level the caller left
\* unspecified at the prior value of the position.
C26_UnspecifiedLevelsKept ==
    \A c \in DOMAIN call :
        (call[c].op = "modify_position" /\ call[c].submits >= 1) =>
          /\ call[c].request.sl =
               IF call[c].sl # NoLevel THEN call[c].sl ELSE call[c].snap.sl
          /\ call[c].request.tp =
               IF call[c].tp # NoLevel THEN call[c].tp ELSE call[c].snap.tp

\* C27: the backoff delay before attempt n+1 is never below RETRY_MIN_WAIT
\* and never above RETRY_MAX_WAIT, is the exponential RETRY_MULTIPLIER *
\* 2^(n-1) wherever that lies between the two, does not decrease from one
\* attempt to the next, and none follows the last permitted attempt.
C27_BackoffDelays ==
    \A c \in DOMAIN call :
        /\ Len(call[c].waits) = call[c].backoffs
        /\ Len(call[c].waits) <= MAX_RETRIES - 1
        /\ \A n \in 1 .. Len(call[c].waits) :
             /\ call[c].waits[n] >= RETRY_MIN_WAIT
             /\ call[c].waits[n] <= RETRY_MAX_WAIT
             /\ n > 1 => call[c].waits[n] >= call[c].waits[n - 1]
             /\ RETRY_MULTIPLIER * 2 ^ (n - 1) \in RETRY_MIN_WAIT .. RETRY_MAX_WAIT
                  => call[c].waits[n] = RETRY_MULTIPLIER * 2 ^ (n - 1)

\* a call went through every backoff it is allowed and ended at the stop
C27_Witness ==
    \E c \in DOMAIN call :
        /\ call[c].pc = "done"
        /\ call[c].attempt = MAX_RETRIES
        /\ Len(call[c].waits) = MAX_RETRIES - 1
        /\ call[c].result.text = "Failed after retries: "

\* C29: a connect of the connection manager that fails at login, and so
\* shuts the terminal down, leaves the initialized flag false.
C29_FlagFalseAfterFailedLogin ==
    (last.op = "connect" /\ last.issued = 1) => ~last.now

\* C28: two concurrent close_position calls for the same ticket,
\* interleaved at their suspension points, never both return status
\* success.
C28_AtMostOneCloser ==
    \A c \in DOMAIN call, d \in DOMAIN call :
        (/\ c # d
         /\ call[c].op = "close_position" /\ call[d].op = "close_position"
         /\ call[c].ticket = call[d].ticket
         /\ call[c].pc = "done" /\ call[d].pc = "done")
        => ~(call[c].result.status = "success" /\ call[d].result.status = "success")

\* C21: the place-order, close and modify endpoints answer a service result
\* with status success by 200 and the result as body, a service result with
\* status error by HTTP 400 carrying the message of the result, and answer
\* 500 only when the service raised an exception.
C21_HttpMapping ==
    (http.pc = "responded"
       /\ http.endpoint \in {"execute_trade", "close_position", "modify_position"}) =>
      /\ (~http.raised /\ http.results[1].status = "success") =>
           (http.status = 200 /\ http.body = http.results)
      /\ (~http.raised /\ http.results[1].status = "error") =>
           /\ http.status = 400
           /\ http.detail.text = http.results[1].text
           /\ http.detail.detail = http.results[1].detail
      /\ http.status = 500 => http.raised

\* C23: in the close, modify and close-all endpoints the answer is decided
\* by what the service call gave alone, whatever became of the
\* notifications: 200 with the result or the list as body, 400 for an error
\* result, and the 500 of close-all only for an exception of the service.
C23_NotificationBestEffort ==
    (http.pc = "responded"
       /\ http.endpoint \in {"close_position", "modify_position", "close_all_positions"}) =>
      /\ http.endpoint = "close_all_positions" =>
           IF http.raised THEN http.status = 500
           ELSE http.status = 200 /\ http.body = http.results
      /\ http.endpoint # "close_all_positions" =>
           /\ ~http.raised
           /\ IF http.results[1].status = "success"
                THEN http.status = 200 /\ http.body = http.results
                ELSE http.status = 400 /\ http.body = << >>

\* a close answered with 200 and the result although the notification met a
\* transport error, and a close-all answered with its list although the
\* channel answered another status than 200
C23_Witness ==
    /\ http.pc = "responded"
    /\ http.status = 200
    /\ http.body # << >>
    /\ \/ http.endpoint = "close_position" /\ http.notes = <<"transport_error">>
       \/ http.endpoint = "close_all_positions" /\ http.notes = <<"non200">>

\* C30: a scheduled trade of type once is handed to execution at most once:
\* when the execution it triggered has returned it is out of the schedule,
\* whether or not the execution succeeded; a trade of another type, and a
\* trade not yet triggered, among them those added during a poll, is in the
\* schedule.
C30_OnceAtMostOnce ==
    \A k \in 1 .. Len(monitor.added) :
        LET trade == monitor.added[k]
            running == monitor.pc = "await" /\ monitor.copy[monitor.i].id = k
        IN  /\ trade.schedule_type = "once" => monitor.runs[k] <= 1
            /\ (trade.schedule_type = "once" /\ monitor.runs[k] = 1 /\ ~running)
                 => k \notin ScheduledIds
            /\ (trade.schedule_type # "once" \/ monitor.runs[k] = 0 \/ running)
                 => k \in ScheduledIds

\* a once trade whose only execution is over has left the schedule, a trade
\* added during the await of a poll is still scheduled, and a later poll is
\* under way
C30_Witness ==
    \E k \in 1 .. Len(monitor.added), j \in 1 .. Len(monitor.added) :
        /\ monitor.added[k].schedule_type = "once"
        /\ monitor.runs[k] = 1
        /\ k \notin ScheduledIds
        /\ j \in monitor.late
        /\ j \in ScheduledIds
        /\ monitor.polls >= 2

====
